---- MODULE Spec2Model ----
(***************************************************************************)
(* Flux WiFi sniffer: the capture pipeline of main.py, src/sniffer.py,     *)
(* src/packet_handler.py, src/models.py, src/publisher.py, src/queue.py    *)
(* and src/database.py.                                                    *)
(*                                                                         *)
(* Threads: the main thread (startup, scapy sniff() and every callback it  *)
(* runs, the signal handler, the finally block) and the Publisher's        *)
(* flusher thread.  Python objects are shared by reference: a batch holds  *)
(* references to the records of the Store, so a batch is a sequence of     *)
(* Store keys and an upsert reads the record as it is at that moment.      *)
(***************************************************************************)
EXTENDS Integers, Sequences, FiniteSets, TLC

(***************************************************************************)
(* Bounds of the model.                                                    *)
(***************************************************************************)
\* frames delivered to process_packet in the threaded specification
MaxFrames == 2
\* frames delivered in the capture-only Store specification
MaxStoreFrames == 3
\* frames delivered in the single-key RSSI window specification
MaxWindowFrames == 11
\* frames delivered in the running-clock specification, and the latest
\* instant its clock reaches
MaxClockFrames == 3
MaxClock == 3
\* _set_channel calls the channel hopper makes in a run
MaxHops == 3
\* beacons delivered in the encryption specification, and the security
\* elements a beacon carries after its SSID and DS Parameter Set
MaxEncryptionFrames == 2
MaxSecurityElts == 2
\* frames delivered in the sniffer and long-running-loop specifications, and
\* the reports the stats reporter logs in a run
MaxLoopFrames == 1
MaxReports == 1
\* beacons delivered to the capture thread between two flushes
MaxBatchFrames == 501

(***************************************************************************)
(* Values.                                                                 *)
(***************************************************************************)
\* Python's None, where the code has Optional[str]
None == "None"

\* MAC addresses as their six octets; the canonical lower-case colon-hex
\* string scapy yields is one-to-one with them
MacA == <<170, 187, 204, 17, 34, 51>>
MacB == <<222, 173, 190, 239, 0, 1>>
MacMulticast == <<1, 0, 94, 0, 0, 1>>
BROADCAST == <<255, 255, 255, 255, 255, 255>>
\* addr2/addr3 absent: scapy yields None
NoAddr == <<>>

UnicastMacs == {MacA, MacB}
Addrs == UnicastMacs \cup {MacMulticast, BROADCAST, NoAddr}

RSSI == {-62, -70}

SSIDs == {"", "home"}
Channels == {1, 6}
\* VendorLookup.lookup: a vendor string (the body of a 200, or "Unknown"
\* for a 404), or None on any other status or a network error
Vendors == {"Acme", None}

(***************************************************************************)
(* Information elements (Dot11Elt): ID, and info as the text it decodes to *)
(* (SSID and vendor elements) or as its octets (DS Parameter Set).         *)
(***************************************************************************)
IE(id, info, octets) == [ID |-> id, info |-> info, octets |-> octets]

SsidIEs == {IE(0, s, <<>>) : s \in SSIDs}
DsIEs == {IE(3, "", <<c>>) : c \in Channels}
RsnIE == IE(48, "rsn", <<>>)
\* an RSN element whose AKM suite list contains 00-0F-AC:8 (SAE)
RsnSaeIE == IE(48, "rsn-sae", <<>>)
WpaIE == IE(221, "wpa", <<>>)
OtherVendorIE == IE(221, "other", <<>>)
\* DS Parameter Set elements whose info is not one octet long
BadDsIEs == {IE(3, "", <<>>), IE(3, "", <<1, 6>>)}

\* the elements of a beacon: SSID, DS Parameter Set, and RSN when protected
BeaconElts(ssid, channel, privacy) ==
    <<IE(0, ssid, <<>>), IE(3, "", <<channel>>)>>
    \o (IF privacy THEN <<RsnIE>> ELSE <<>>)

(***************************************************************************)
(* Frames handed to process_packet by sniff().                             *)
(***************************************************************************)
\* radiotap: the frame has a RadioTap layer, dbm its dBm_AntSignal
Frame(kind, addr, radiotap, dbm, privacy, elts) ==
    [kind |-> kind, addr |-> addr, radiotap |-> radiotap, dbm |-> dbm,
     privacy |-> privacy, elts |-> elts]

ProbeElts == {<<>>} \cup {<<e>> : e \in SsidIEs}

\* frames whose address the Store may have to reject, one of each kind
SuspectAddrs == {MacMulticast, BROADCAST, NoAddr}

\* the frames of the Store specification: every beacon of one access point
\* (SSID hidden or named, either channel, open or RSN), every probe request
\* of one station (either signal level or no RadioTap layer, with and
\* without an SSID), a beacon and a probe request of each suspect address,
\* a Dot11 frame that is neither, and the beacons of that access point
\* with a malformed DS Parameter Set
Frames ==
    {Frame("beacon", MacB, TRUE, -70, p, BeaconElts(s, c, p)) :
        s \in SSIDs, c \in Channels, p \in BOOLEAN}
    \cup {Frame("probe", MacA, TRUE, r, FALSE, l) : r \in RSSI, l \in ProbeElts}
    \cup {Frame("probe", MacA, FALSE, -62, FALSE, <<>>)}
    \cup {Frame("beacon", a, TRUE, -62, FALSE, BeaconElts("home", 1, FALSE)) :
            a \in SuspectAddrs}
    \cup {Frame("probe", a, TRUE, -62, FALSE, <<>>) : a \in SuspectAddrs}
    \cup {Frame("other", MacA, TRUE, -62, FALSE, <<>>)}
    \cup {Frame("beacon", MacB, TRUE, -70, FALSE, <<IE(0, "home", <<>>), e>>) :
            e \in BadDsIEs}

(***************************************************************************)
(* Frame decoding (src/packet_handler.py).                                 *)
(***************************************************************************)
\* the while loop of _extract_beacon_info; ord(elt.info) raises TypeError
\* unless info is exactly one octet, which ends the walk
RECURSIVE walk_beacon_info(_, _, _)
walk_beacon_info(elts, ssid, channel) ==
    IF elts = <<>> THEN [ssid |-> ssid, channel |-> channel, raised |-> FALSE]
    ELSE LET elt == Head(elts) IN
         IF elt.ID = 0 THEN walk_beacon_info(Tail(elts), elt.info, channel)
         ELSE IF elt.ID = 3
              THEN IF Len(elt.octets) = 1
                   THEN walk_beacon_info(Tail(elts), ssid, elt.octets[1])
                   ELSE [ssid |-> ssid, channel |-> channel, raised |-> TRUE]
         ELSE walk_beacon_info(Tail(elts), ssid, channel)

\* ssid = None, channel = 0, then every element overwrites what it names
extract_beacon_info(packet) == walk_beacon_info(packet.elts, None, 0)

RECURSIVE walk_ssid(_)
walk_ssid(elts) ==
    IF elts = <<>> THEN None
    ELSE LET elt == Head(elts) IN
         IF elt.ID = 0 /\ elt.info # "" THEN elt.info
         ELSE walk_ssid(Tail(elts))

extract_ssid(packet) == walk_ssid(packet.elts)

SentinelRssi == -100

get_rssi(packet) == IF packet.radiotap THEN packet.dbm ELSE SentinelRssi

\* b'\x00\x50\xf2\x01\x01\x00' in bytes(elt): bytes(elt) is the element
\* with its payload, that is, with every element after it
HasWpaOui(elts) == \E i \in 1..Len(elts) : elts[i] = WpaIE

RECURSIVE walk_encryption(_)
walk_encryption(elts) ==
    IF elts = <<>> THEN "WEP"
    ELSE LET elt == Head(elts) IN
         IF elt.ID = 48 THEN "WPA2"
         ELSE IF elt.ID = 221 /\ HasWpaOui(elts) THEN "WPA"
         ELSE walk_encryption(Tail(elts))

get_encryption(packet) ==
    IF packet.privacy THEN walk_encryption(packet.elts) ELSE "Open"

(***************************************************************************)
(* Records (src/models.py).  Device(...) and AccessPoint(...) are the      *)
(* dataclass constructors as the handlers call them.                       *)
(***************************************************************************)
\* Device with the two timestamps taken in the other order
Device_stamps_swapped(mac, rssi, t1, t2) ==
    [mac_address |-> mac, first_seen |-> t2, last_seen |-> t1,
     rssi_values |-> <<rssi>>, probe_ssids |-> {},
     packet_count |-> 0, vendor |-> None]

\* t1, t2: what datetime.now() returns to the default_factory of first_seen
\* and then to that of last_seen
Device(mac, rssi, t1, t2) ==
    [mac_address |-> mac, first_seen |-> t1, last_seen |-> t2,
     rssi_values |-> <<rssi>>, probe_ssids |-> {},
     packet_count |-> 0, vendor |-> None]

\* t: what datetime.now() returns
update_rssi(device, rssi, t) ==
    [device EXCEPT !.rssi_values = Append(@, rssi),
                   !.last_seen = t,
                   !.packet_count = @ + 1]

add_probe_ssid(device, ssid) ==
    IF ssid # None /\ ssid # ""
    THEN [device EXCEPT !.probe_ssids = @ \cup {ssid}]
    ELSE device

AccessPoint(bssid, ssid, channel, rssi, encryption, t1, t2) ==
    [bssid |-> bssid, ssid |-> ssid, channel |-> channel,
     first_seen |-> t1, last_seen |-> t2,
     rssi_values |-> <<rssi>>, beacon_count |-> 0,
     encryption |-> encryption]

update(ap, rssi, t) ==
    [ap EXCEPT !.rssi_values = Append(@, rssi),
               !.last_seen = t,
               !.beacon_count = @ + 1]

\* Put with the dict rebuilt from the one entry instead of updated
Put_forgetting(d, k, v) == [x \in {k} |-> v]

\* d[k] = v on a Python dict
Put(d, k, v) == [x \in DOMAIN d \cup {k} |-> IF x = k THEN v ELSE d[x]]

(***************************************************************************)
(* State.                                                                  *)
(***************************************************************************)
VARIABLES
    \* PacketHandler (the Store): dicts keyed by MAC / BSSID
    devices, access_points,
    \* Publisher: whether main kept it (connect() succeeded), its batches of
    \* record references, its mutex (the frame holding it), its running
    \* flag, and whether the sink and bus connections are still open
    attached, device_batch, ap_batch, lock, pub_running, db_open, queue_open,
    \* flusher thread: position, and the local lists of its flush cycle
    pcFlush, devices_to_flush, aps_to_flush,
    \* WiFiSniffer.running
    sn_running,
    \* WiFiSniffer: what _set_monitor_mode() returned, the channel hopper
    \* thread's position and index in CHANNELS_2_4GHZ, current_channel, and
    \* (history) the number of _set_channel calls
    monitor_mode, pcHop, hopIdx, current_channel, setChannelCalls,
    \* history: the _set_channel calls that failed or timed out
    channelErrors,
    \* the wall clock: the latest value datetime.now() returned to a record
    clock,
    \* VendorLookup.lookup: the results its lru_cache holds per MAC; history:
    \* the calls made per MAC and the threads that made one
    lookup_cache, lookups, lookupThreads,
    \* history: for each entry of device_batch / ap_batch, what the record
    \* showed when its callback queued it
    devQueued, apQueued,
    \* main thread: position, the arguments of the callback it is inside,
    \* the number of frames sniff() has delivered, the process exit status
    pcMain, cbKey, cbNew, frames, exit_code,
    \* signal handler, run by the main thread on top of the frame it
    \* interrupted, and Publisher.stop() (called by the handler and by the
    \* finally block): position and index in the batch it is upserting
    pcHandler, pcStop, stopIdx,
    \* document sink: upserts applied per key; whether it rejected any
    devUpserts, apUpserts, sinkFailed,
    \* document sink: packet_count per MAC and beacon_count per BSSID, the
    \* sums of the $inc amounts of the upserts applied
    devCounted, apCounted,
    \* event bus: the durable queue, and the messages whose publish failed
    bus, busDropped,
    \* history: frames accepted per key, appends to the batches per key,
    \* the latest beacon observation per BSSID, completed stop() calls,
    \* where the flusher was at each join() that timed out, and whether a
    \* batch got a new entry since the start of the latest flush
    probesIn, beaconsIn, devPushed, apPushed, lastObs, stopsDone,
    joinTimedOut, dirtySinceFlush, flushSawNew, stopSawNew,
    \* history: the RSSI of every accepted frame per key, in arrival order,
    \* and the stations whose on_device(_, is_new=True) call has returned
    devRssiIn, apRssiIn, devNewDone,
    \* history: the ordinals of the frames whose handling raised
    decodeErrorAt,
    \* StatsReporter thread: position; history: the reports it has logged
    pcStats, statsReports,
    \* history: the objects whose stop() has cleared their running flag
    flagsCleared

storeVars == <<devices, access_points>>
pubVars == <<device_batch, ap_batch, lock, pub_running, db_open, queue_open>>
flushVars == <<pcFlush, devices_to_flush, aps_to_flush>>
mainVars == <<pcMain, cbKey, cbNew, frames, exit_code>>
stopVars == <<pcHandler, pcStop, stopIdx>>
sinkVars == <<devUpserts, apUpserts, sinkFailed, devCounted, apCounted>>
busVars == <<bus, busDropped>>
frameHist == <<probesIn, beaconsIn, lastObs, devRssiIn, apRssiIn,
               decodeErrorAt>>
flushHist ==
    <<stopsDone, joinTimedOut, dirtySinceFlush, flushSawNew, stopSawNew>>
pushHist == <<devPushed, apPushed, devNewDone>>
lookupVars == <<lookup_cache, lookups, lookupThreads>>
snapHist == <<devQueued, apQueued>>
hopVars ==
    <<monitor_mode, pcHop, hopIdx, current_channel, setChannelCalls,
      channelErrors>>
loopVars == <<pcStats, statsReports, flagsCleared>>

vars == <<storeVars, attached, pubVars, flushVars, sn_running, clock,
          mainVars, stopVars, sinkVars, busVars, frameHist, flushHist,
          pushHist, lookupVars, snapHist, hopVars, loopVars>>

EmptyDict == [x \in {} |-> None]
Zero == [a \in Addrs |-> 0]

\* main() up to the try block: Publisher() and publisher.connect(); when
\* connect() fails main drops the publisher and the sniffer gets no callback
InitWith(conn) ==
    /\ devices = EmptyDict /\ access_points = EmptyDict
    /\ attached = conn
    /\ device_batch = <<>> /\ ap_batch = <<>>
    /\ lock = "free" /\ pub_running = FALSE
    /\ db_open = conn /\ queue_open = conn
    /\ pcFlush = "unstarted" /\ devices_to_flush = <<>> /\ aps_to_flush = <<>>
    /\ sn_running = FALSE
    /\ monitor_mode = "untried" /\ pcHop = "unstarted" /\ hopIdx = 1
    /\ current_channel = 1 /\ setChannelCalls = 0
    /\ clock = 0
    /\ lookup_cache = EmptyDict /\ lookups = Zero /\ lookupThreads = {}
    /\ devQueued = <<>> /\ apQueued = <<>>
    /\ pcMain = "startup" /\ cbKey = NoAddr /\ cbNew = FALSE
    /\ frames = 0 /\ exit_code = "running"
    /\ pcHandler = "none" /\ pcStop = "idle" /\ stopIdx = 0
    /\ devUpserts = Zero /\ apUpserts = Zero /\ sinkFailed = FALSE
    /\ devCounted = Zero /\ apCounted = Zero
    /\ bus = <<>> /\ busDropped = <<>>
    /\ probesIn = Zero /\ beaconsIn = Zero
    /\ devPushed = Zero /\ apPushed = Zero
    /\ lastObs = EmptyDict
    /\ pcStats = "unstarted" /\ statsReports = 0 /\ flagsCleared = {}
    /\ channelErrors = 0
    /\ devRssiIn = [a \in Addrs |-> <<>>] /\ apRssiIn = [a \in Addrs |-> <<>>]
    /\ devNewDone = {}
    /\ decodeErrorAt = {}
    /\ stopsDone = 0 /\ joinTimedOut = {}
    /\ dirtySinceFlush = FALSE /\ flushSawNew = FALSE /\ stopSawNew = FALSE

Init == \E conn \in BOOLEAN : InitWith(conn)

(***************************************************************************)
(* Startup (main.py 49-58, Publisher.start, WiFiSniffer.start).            *)
(***************************************************************************)
\* publisher.start(), then sniffer.start() with monitor mode set: running
\* flags go up, the flusher and channel hopper threads start, sniff() begins
start ==
    /\ pcMain = "startup" /\ pcHandler = "none"
    /\ pub_running' = attached
    /\ pcFlush' = IF attached THEN "check" ELSE pcFlush
    /\ monitor_mode' = "ok"
    /\ sn_running' = TRUE
    /\ pcHop' = "while"
    /\ pcMain' = "sniff"
    /\ pcStats' = "loop"
    /\ UNCHANGED <<statsReports, flagsCleared>>
    /\ UNCHANGED <<storeVars, attached, snapHist, lookupVars, clock,
                   device_batch, ap_batch, lock, db_open, queue_open,
                   devices_to_flush, aps_to_flush, hopIdx, current_channel,
                   setChannelCalls, channelErrors, cbKey, cbNew, frames,
                   exit_code, stopVars, sinkVars, busVars, frameHist,
                   flushHist, pushHist>>

\* _set_monitor_mode() returns False: start() raises RuntimeError before
\* it sets running or starts the hopper; main logs it, calls sys.exit(1)
\* and the finally block runs
start_monitor_failed ==
    /\ pcMain = "startup" /\ pcHandler = "none"
    /\ pub_running' = attached
    /\ pcFlush' = IF attached THEN "check" ELSE pcFlush
    /\ monitor_mode' = "failed"
    /\ pcMain' = "finally_sniffer"
    /\ exit_code' = "1"
    /\ pcStats' = "loop"
    /\ UNCHANGED <<statsReports, flagsCleared>>
    /\ UNCHANGED <<storeVars, attached, snapHist, lookupVars, device_batch,
                   ap_batch, lock, db_open, queue_open, devices_to_flush,
                   aps_to_flush, sn_running, pcHop, hopIdx, current_channel,
                   setChannelCalls, channelErrors, clock, cbKey, cbNew,
                   frames, stopVars, sinkVars, busVars, frameHist, flushHist,
                   pushHist>>

(***************************************************************************)
(* The Store (PacketHandler).  One frame is handled in one step up to the  *)
(* call of the Publisher callback, which then runs step by step in the     *)
(* same thread.                                                            *)
(***************************************************************************)
\* control after the handler has updated its dict: into the callback when
\* one is installed, back to sniff() otherwise
EnterCallback(first, key, is_new) ==
    IF attached
    THEN pcMain' = first /\ cbKey' = key /\ cbNew' = is_new
    ELSE pcMain' = "sniff" /\ UNCHANGED <<cbKey, cbNew>>

\* process_packet 24-25 with the exception left to propagate: sniff()
\* ends, WiFiSniffer.start logs, calls self.stop() and returns
exception_propagates ==
    /\ decodeErrorAt' = decodeErrorAt \cup {frames + 1}
    /\ sn_running' = FALSE
    /\ pcMain' = "finally_sniffer"
    /\ UNCHANGED <<storeVars, clock, cbKey, cbNew, probesIn, beaconsIn,
                   lastObs, devRssiIn, apRssiIn>>

\* process_packet 24-25: except Exception: log the error, return to sniff()
swallow_exception ==
    /\ decodeErrorAt' = decodeErrorAt \cup {frames + 1}
    /\ UNCHANGED <<storeVars, sn_running, clock, pcMain, cbKey, cbNew,
                   probesIn, beaconsIn, lastObs, devRssiIn, apRssiIn>>

handle_beacon(packet, t1, t2) ==
    LET bssid == packet.addr IN
    IF bssid = NoAddr \/ bssid = BROADCAST
    THEN t1 = clock /\ t2 = clock
         /\ UNCHANGED <<storeVars, sn_running, clock, pcMain, cbKey, cbNew,
                        frameHist>>
    ELSE IF extract_beacon_info(packet).raised
    THEN t1 = clock /\ t2 = clock /\ swallow_exception
    ELSE LET info == extract_beacon_info(packet)
             ssid == info.ssid
             channel == info.channel
             rssi == get_rssi(packet)
             encryption == get_encryption(packet)
             is_new == bssid \notin DOMAIN access_points
         IN /\ access_points' =
                  IF bssid \in DOMAIN access_points
                  THEN Put(access_points, bssid,
                           update(access_points[bssid], rssi, t1))
                  ELSE Put(access_points, bssid,
                           AccessPoint(bssid, IF ssid = None THEN "" ELSE ssid,
                                       channel, rssi, encryption, t1, t2))
            /\ IF bssid \in DOMAIN access_points THEN t2 = t1 ELSE TRUE
            /\ clock' = t2
            /\ EnterCallback("ap_acquire", bssid, is_new)
            /\ beaconsIn' = [beaconsIn EXCEPT ![bssid] = @ + 1]
            /\ lastObs' = Put(lastObs, bssid,
                              [ssid |-> ssid, channel |-> channel,
                               encryption |-> encryption,
                               privacy |-> packet.privacy,
                               elts |-> packet.elts])
            /\ apRssiIn' = [apRssiIn EXCEPT ![bssid] = Append(@, rssi)]
            /\ UNCHANGED <<devices, sn_running, probesIn, devRssiIn,
                           decodeErrorAt>>

handle_probe_request(packet, t1, t2) ==
    LET mac == packet.addr IN
    IF mac = NoAddr \/ mac = BROADCAST
    THEN t1 = clock /\ t2 = clock
         /\ UNCHANGED <<storeVars, sn_running, clock, pcMain, cbKey, cbNew,
                        frameHist>>
    ELSE LET ssid == extract_ssid(packet)
             rssi == get_rssi(packet)
             is_new == mac \notin DOMAIN devices
         IN /\ devices' =
                  IF mac \in DOMAIN devices
                  THEN Put(devices, mac,
                           add_probe_ssid(update_rssi(devices[mac], rssi, t1),
                                          ssid))
                  ELSE Put(devices, mac,
                           add_probe_ssid(Device(mac, rssi, t1, t2), ssid))
            /\ IF mac \in DOMAIN devices THEN t2 = t1 ELSE TRUE
            /\ clock' = t2
            /\ EnterCallback("dev_lookup", mac, is_new)
            /\ probesIn' = [probesIn EXCEPT ![mac] = @ + 1]
            /\ devRssiIn' = [devRssiIn EXCEPT ![mac] = Append(@, rssi)]
            /\ UNCHANGED <<access_points, sn_running, beaconsIn, lastObs,
                           apRssiIn, decodeErrorAt>>

\* no signal handler is running on top of the main thread's frame: none
\* was called, or the one called was left by an exception that the frame
\* caught
HandlerOff == pcHandler \in {"none", "raised"}

\* t1, t2: what datetime.now() returns to the first and to the second of
\* the reads the handler makes (two when it creates a record, one when it
\* updates one; then t2 = t1); the clock does not run backwards
process_packet(packet, t1, t2) ==
    /\ pcMain = "sniff" /\ HandlerOff
    /\ clock <= t1 /\ t1 <= t2
    /\ frames' = frames + 1
    /\ IF packet.kind = "beacon" THEN handle_beacon(packet, t1, t2)
       ELSE IF packet.kind = "probe" THEN handle_probe_request(packet, t1, t2)
       ELSE t1 = clock /\ t2 = clock
            /\ UNCHANGED <<storeVars, sn_running, clock, pcMain, cbKey, cbNew,
                           frameHist>>
    /\ UNCHANGED <<attached, loopVars, hopVars, snapHist, lookupVars, pubVars,
                   flushVars, exit_code, stopVars, sinkVars, busVars,
                   flushHist, pushHist>>

(***************************************************************************)
(* Event bus (src/queue.py) and document sink (src/database.py).           *)
(***************************************************************************)
\* publish() returns False without enqueuing when basic_publish raises
\* AMQPConnectionError / AMQPChannelError, as it does on a closed connection
PublishOutcomes ==
    IF ~queue_open THEN {FALSE}
    ELSE BOOLEAN

publish(message) ==
    \E ok \in PublishOutcomes :
        /\ bus' = IF ok THEN Append(bus, message) ELSE bus
        /\ busDropped' = IF ok THEN busDropped ELSE Append(busDropped, message)

\* update_one(..., upsert=True) is applied ("ok"); or it raises
\* OperationFailure, which upsert_* logs and swallows ("opfail"); or the
\* connection is lost and it raises a ConnectionFailure (AutoReconnect,
\* ServerSelectionTimeoutError), which upsert_* does not catch ("connfail").
\* The sink fails at most one upsert of a run.  A MongoClient used after
\* close() re-opens itself, so the outcomes are the same once db.close()
\* has run.
UpsertOutcomes ==
    {"ok"} \cup (IF sinkFailed THEN {} ELSE {"opfail", "connfail"})

\* "$inc": {"packet_count": device.packet_count}, device being the record
\* of the Store that the batch entry refers to, as it is now
inc_packet_count(mac) ==
    [devCounted EXCEPT ![mac] = @ + devices[mac].packet_count]

upsert_device(mac, outcome) ==
    /\ devUpserts' = IF outcome = "ok"
                     THEN [devUpserts EXCEPT ![mac] = @ + 1]
                     ELSE devUpserts
    /\ devCounted' = IF outcome = "ok"
                     THEN inc_packet_count(mac)
                     ELSE devCounted
    /\ sinkFailed' = (sinkFailed \/ outcome # "ok")
    /\ UNCHANGED <<apUpserts, apCounted>>

upsert_access_point(bssid, outcome) ==
    /\ apUpserts' = IF outcome = "ok"
                    THEN [apUpserts EXCEPT ![bssid] = @ + 1]
                    ELSE apUpserts
    /\ apCounted' = IF outcome = "ok"
                    THEN [apCounted EXCEPT
                            ![bssid] = @ + access_points[bssid].beacon_count]
                    ELSE apCounted
    /\ sinkFailed' = (sinkFailed \/ outcome # "ok")
    /\ UNCHANGED <<devUpserts, devCounted>>

(***************************************************************************)
(* Publisher callbacks, run by the capture (main) thread inside            *)
(* process_packet.                                                         *)
(***************************************************************************)
InCallback(pc) == pcMain = pc /\ HandlerOff

\* what a record handed to a callback shows of its observations
Shown(record) ==
    [rssi_values |-> record.rssi_values, last_seen |-> record.last_seen,
     count |-> IF "packet_count" \in DOMAIN record
               THEN record.packet_count ELSE record.beacon_count]

\* VendorLookup.lookup under lru_cache: the cached result of an earlier
\* call for the MAC, else whatever the HTTP request yields
LookupResults(mac) ==
    IF mac \in DOMAIN lookup_cache THEN {lookup_cache[mac]} ELSE Vendors

\* the call of VendorLookup.lookup(device.mac_address) by the thread that
\* runs on_device, and "if vendor: device.vendor = vendor"
lookup(vendor) ==
    /\ vendor \in LookupResults(cbKey)
    /\ lookup_cache' = Put(lookup_cache, cbKey, vendor)
    /\ lookups' = [lookups EXCEPT ![cbKey] = @ + 1]
    /\ lookupThreads' = lookupThreads \cup {"capture"}
    /\ devices' = IF vendor # None /\ vendor # ""
                  THEN [devices EXCEPT ![cbKey].vendor = vendor]
                  ELSE devices

\* on_device_lookup with "device.vendor = vendor" moved out of both ifs:
\* a callback that makes no lookup writes the initial None
on_device_lookup_assign_always ==
    /\ InCallback("dev_lookup")
    /\ IF cbNew /\ devices[cbKey].vendor \in {None, ""}
       THEN \E vendor \in Vendors : lookup(vendor)
       ELSE /\ devices' = [devices EXCEPT ![cbKey].vendor = None]
            /\ UNCHANGED lookupVars
    /\ pcMain' = "dev_acquire"
    /\ UNCHANGED <<access_points, attached, loopVars, hopVars, snapHist,
                   pubVars, flushVars, sn_running, clock, cbKey, cbNew,
                   frames, exit_code, stopVars, sinkVars, busVars, frameHist,
                   flushHist, pushHist>>

\* on_device_lookup with "is_new and" dropped from the test of line 30
on_device_lookup_every_call ==
    /\ InCallback("dev_lookup")
    /\ IF devices[cbKey].vendor \in {None, ""}
       THEN \E vendor \in Vendors : lookup(vendor)
       ELSE UNCHANGED <<devices, lookupVars>>
    /\ pcMain' = "dev_acquire"
    /\ UNCHANGED <<access_points, attached, loopVars, hopVars, snapHist,
                   pubVars, flushVars, sn_running, clock, cbKey, cbNew,
                   frames, exit_code, stopVars, sinkVars, busVars, frameHist,
                   flushHist, pushHist>>

\* on_device 30-33: the vendor lookup for a new record without a vendor,
\* written into the record the callback was given
on_device_lookup ==
    /\ InCallback("dev_lookup")
    /\ IF cbNew /\ devices[cbKey].vendor \in {None, ""}
       THEN \E vendor \in Vendors : lookup(vendor)
       ELSE UNCHANGED <<devices, lookupVars>>
    /\ pcMain' = "dev_acquire"
    /\ UNCHANGED <<access_points, attached, loopVars, hopVars, snapHist,
                   pubVars, flushVars, sn_running, clock, cbKey, cbNew,
                   frames, exit_code, stopVars, sinkVars, busVars, frameHist,
                   flushHist, pushHist>>

\* on_device 35: with self.lock
on_device_acquire ==
    /\ InCallback("dev_acquire")
    /\ lock = "free"
    /\ lock' = "callback"
    /\ pcMain' = "dev_append"
    /\ UNCHANGED <<storeVars, attached, loopVars, hopVars, snapHist,
                   lookupVars, device_batch, ap_batch, pub_running, db_open,
                   queue_open, flushVars, sn_running, clock, cbKey, cbNew,
                   frames, exit_code, stopVars, sinkVars, busVars, frameHist,
                   flushHist, pushHist>>

\* on_device_append with the "if is_new" of line 38 dropped: every callback
\* goes on to publish
on_device_append_always_publish ==
    /\ InCallback("dev_append")
    /\ device_batch' = Append(device_batch, cbKey)
    /\ devQueued' = Append(devQueued, Shown(devices[cbKey]))
    /\ UNCHANGED apQueued
    /\ lock' = "free"
    /\ devPushed' = [devPushed EXCEPT ![cbKey] = @ + 1]
    /\ dirtySinceFlush' = TRUE
    /\ pcMain' = "dev_publish"
    /\ UNCHANGED <<storeVars, attached, loopVars, hopVars, lookupVars,
                   ap_batch, pub_running, db_open, queue_open, flushVars,
                   sn_running, clock, cbKey, cbNew, frames, exit_code,
                   stopVars, sinkVars, busVars, frameHist, stopsDone,
                   joinTimedOut, flushSawNew, stopSawNew, apPushed,
                   devNewDone>>

\* on_device 36-38: the append, the release at the end of the with block,
\* and the test of is_new
on_device_append ==
    /\ InCallback("dev_append")
    /\ device_batch' = Append(device_batch, cbKey)
    /\ devQueued' = Append(devQueued, Shown(devices[cbKey]))
    /\ UNCHANGED apQueued
    /\ lock' = "free"
    /\ devPushed' = [devPushed EXCEPT ![cbKey] = @ + 1]
    /\ dirtySinceFlush' = TRUE
    /\ pcMain' = IF cbNew THEN "dev_publish" ELSE "sniff"
    /\ UNCHANGED <<storeVars, attached, loopVars, hopVars, lookupVars,
                   ap_batch, pub_running, db_open, queue_open, flushVars,
                   sn_running, clock, cbKey, cbNew, frames, exit_code,
                   stopVars, sinkVars, busVars, frameHist, stopsDone,
                   joinTimedOut, flushSawNew, stopSawNew, apPushed,
                   devNewDone>>

\* on_device 38-45
on_device_publish ==
    /\ InCallback("dev_publish")
    /\ publish([event_type |-> "device_discovered", key |-> cbKey])
    /\ pcMain' = "sniff"
    /\ devNewDone' = devNewDone \cup {cbKey}
    /\ UNCHANGED <<storeVars, attached, loopVars, hopVars, snapHist,
                   lookupVars, pubVars, flushVars, sn_running, clock, cbKey,
                   cbNew, frames, exit_code, stopVars, sinkVars, frameHist,
                   flushHist, devPushed, apPushed>>

\* on_access_point 48: with self.lock
on_access_point_acquire ==
    /\ InCallback("ap_acquire")
    /\ lock = "free"
    /\ lock' = "callback"
    /\ pcMain' = "ap_append"
    /\ UNCHANGED <<storeVars, attached, loopVars, hopVars, snapHist,
                   lookupVars, device_batch, ap_batch, pub_running, db_open,
                   queue_open, flushVars, sn_running, clock, cbKey, cbNew,
                   frames, exit_code, stopVars, sinkVars, busVars, frameHist,
                   flushHist, pushHist>>

\* on_access_point 49
on_access_point_append ==
    /\ InCallback("ap_append")
    /\ ap_batch' = Append(ap_batch, cbKey)
    /\ apQueued' = Append(apQueued, Shown(access_points[cbKey]))
    /\ UNCHANGED devQueued
    /\ lock' = "free"
    /\ apPushed' = [apPushed EXCEPT ![cbKey] = @ + 1]
    /\ dirtySinceFlush' = TRUE
    /\ pcMain' = IF cbNew THEN "ap_publish" ELSE "sniff"
    /\ UNCHANGED <<storeVars, attached, loopVars, hopVars, lookupVars,
                   device_batch, pub_running, db_open, queue_open, flushVars,
                   sn_running, clock, cbKey, cbNew, frames, exit_code,
                   stopVars, sinkVars, busVars, frameHist, stopsDone,
                   joinTimedOut, flushSawNew, stopSawNew, devPushed,
                   devNewDone>>

\* on_access_point 51-58
on_access_point_publish ==
    /\ InCallback("ap_publish")
    /\ publish([event_type |-> "ap_discovered", key |-> cbKey])
    /\ pcMain' = "sniff"
    /\ UNCHANGED <<storeVars, attached, loopVars, hopVars, snapHist,
                   lookupVars, pubVars, flushVars, sn_running, clock, cbKey,
                   cbNew, frames, exit_code, stopVars, sinkVars, frameHist,
                   flushHist, pushHist>>

(***************************************************************************)
(* The flusher thread (Publisher._flush_batches).  It is a daemon thread:  *)
(* it takes no step once the process has exited.                           *)
(***************************************************************************)
Alive == pcMain # "exited"

\* while self.running
flush_check ==
    /\ Alive /\ pcFlush = "check"
    /\ pcFlush' = IF pub_running THEN "sleep" ELSE "done"
    /\ UNCHANGED <<storeVars, attached, loopVars, hopVars, snapHist,
                   lookupVars, pubVars, devices_to_flush, aps_to_flush,
                   sn_running, clock, mainVars, stopVars, sinkVars, busVars,
                   frameHist, flushHist, pushHist>>

\* the sleep ends and the with block runs: copy both batches, clear them;
\* with nothing copied both loops are skipped, back to the while test
flush_swap ==
    /\ Alive /\ pcFlush = "sleep"
    /\ lock = "free"
    /\ devices_to_flush' = device_batch
    /\ aps_to_flush' = ap_batch
    /\ device_batch' = <<>>
    /\ ap_batch' = <<>>
    /\ devQueued' = <<>> /\ apQueued' = <<>>
    /\ pcFlush' = IF device_batch = <<>> /\ ap_batch = <<>>
                  THEN "check" ELSE "upsert"
    /\ flushSawNew' = dirtySinceFlush
    /\ dirtySinceFlush' = FALSE
    /\ UNCHANGED <<storeVars, attached, loopVars, hopVars, lookupVars, lock,
                   pub_running, db_open, queue_open, sn_running, clock,
                   mainVars, stopVars, sinkVars, busVars, frameHist,
                   stopsDone, joinTimedOut, stopSawNew, pushHist>>

\* for device in devices_to_flush: self.db.upsert_device(device); after
\* the last record of the cycle, back to the while test.  An exception
\* upsert_device lets through ends _flush_batches and with it the thread.
flush_upsert_device ==
    /\ Alive /\ pcFlush = "upsert"
    /\ devices_to_flush # <<>>
    /\ \E outcome \in UpsertOutcomes :
          /\ upsert_device(Head(devices_to_flush), outcome)
          /\ IF outcome = "connfail"
             THEN pcFlush' = "dead" /\ UNCHANGED devices_to_flush
             ELSE /\ devices_to_flush' = Tail(devices_to_flush)
                  /\ pcFlush' = IF /\ Tail(devices_to_flush) = <<>>
                                   /\ aps_to_flush = <<>>
                                THEN "check" ELSE "upsert"
    /\ UNCHANGED <<storeVars, attached, loopVars, hopVars, snapHist,
                   lookupVars, pubVars, aps_to_flush, sn_running, clock,
                   mainVars, stopVars, busVars, frameHist, flushHist,
                   pushHist>>

\* for ap in aps_to_flush: self.db.upsert_access_point(ap)
flush_upsert_access_point ==
    /\ Alive /\ pcFlush = "upsert"
    /\ devices_to_flush = <<>> /\ aps_to_flush # <<>>
    /\ \E outcome \in UpsertOutcomes :
          /\ upsert_access_point(Head(aps_to_flush), outcome)
          /\ IF outcome = "connfail"
             THEN pcFlush' = "dead" /\ UNCHANGED aps_to_flush
             ELSE /\ aps_to_flush' = Tail(aps_to_flush)
                  /\ pcFlush' = IF Tail(aps_to_flush) = <<>>
                                THEN "check" ELSE "upsert"
    /\ UNCHANGED <<storeVars, attached, loopVars, hopVars, snapHist,
                   lookupVars, pubVars, devices_to_flush, sn_running, clock,
                   mainVars, stopVars, busVars, frameHist, flushHist,
                   pushHist>>

(***************************************************************************)
(* The channel hopper thread (WiFiSniffer._channel_hopper), a daemon       *)
(* thread like the flusher.                                                *)
(***************************************************************************)
CHANNELS_2_4GHZ == <<1, 2, 3, 4, 5, 6, 7, 8, 9, 10, 11>>

\* _set_channel: iwconfig sets the channel, or fails or times out, which
\* is logged at debug level and leaves current_channel as it was
\* _set_channel assigning current_channel before it runs iwconfig
set_channel_assign_first(channel) ==
    /\ \E ok \in BOOLEAN :
          /\ current_channel' = channel
          /\ channelErrors' = IF ok THEN channelErrors ELSE channelErrors + 1
    /\ setChannelCalls' = setChannelCalls + 1

set_channel(channel) ==
    /\ \E ok \in BOOLEAN :
          /\ current_channel' = IF ok THEN channel ELSE current_channel
          /\ channelErrors' = IF ok THEN channelErrors ELSE channelErrors + 1
    /\ setChannelCalls' = setChannelCalls + 1

\* while self.running: (and the start of the for loop)
hopper_while ==
    /\ Alive /\ pcHop = "while"
    /\ IF sn_running
       THEN pcHop' = "for" /\ hopIdx' = 1
       ELSE pcHop' = "done" /\ UNCHANGED hopIdx
    /\ UNCHANGED <<storeVars, attached, loopVars, snapHist, lookupVars,
                   pubVars, flushVars, sn_running, monitor_mode,
                   current_channel, setChannelCalls, channelErrors, clock,
                   mainVars, stopVars, sinkVars, busVars, frameHist,
                   flushHist, pushHist>>

\* for channel in CHANNELS_2_4GHZ: if not self.running: break
hopper_for ==
    /\ Alive /\ pcHop = "for"
    /\ pcHop' = IF hopIdx > Len(CHANNELS_2_4GHZ) \/ ~sn_running
                THEN "while" ELSE "set"
    /\ UNCHANGED <<storeVars, attached, loopVars, snapHist, lookupVars,
                   pubVars, flushVars, sn_running, monitor_mode, hopIdx,
                   current_channel, setChannelCalls, channelErrors, clock,
                   mainVars, stopVars, sinkVars, busVars, frameHist,
                   flushHist, pushHist>>

\* self._set_channel(channel); time.sleep(CHANNEL_HOP_INTERVAL)
hopper_set_channel ==
    /\ Alive /\ pcHop = "set"
    /\ setChannelCalls < MaxHops
    /\ set_channel(CHANNELS_2_4GHZ[hopIdx])
    /\ hopIdx' = hopIdx + 1
    /\ pcHop' = "for"
    /\ UNCHANGED <<storeVars, attached, loopVars, snapHist, lookupVars,
                   pubVars, flushVars, sn_running, monitor_mode, clock,
                   mainVars, stopVars, sinkVars, busVars, frameHist,
                   flushHist, pushHist>>

(***************************************************************************)
(* The stats reporter thread (StatsReporter._report_loop), a daemon thread *)
(* started by main before sniffer.start().                                 *)
(***************************************************************************)
\* while True: time.sleep(self.interval); get_stats(); logger.info(...)
stats_report ==
    /\ Alive /\ pcStats = "loop"
    /\ statsReports < MaxReports
    /\ statsReports' = statsReports + 1
    /\ UNCHANGED <<storeVars, attached, hopVars, snapHist, lookupVars,
                   pubVars, flushVars, sn_running, clock, mainVars, stopVars,
                   sinkVars, busVars, frameHist, flushHist, pushHist, pcStats,
                   flagsCleared>>

(***************************************************************************)
(* Shutdown: the signal handler (main.py 25-31), the end of sniff()        *)
(* (sniffer.py 59-72), main's finally block (main.py 62-66) and            *)
(* Publisher.stop (publisher.py 86-99).                                    *)
(***************************************************************************)
CapturePcs ==
    {"sniff", "dev_lookup", "dev_acquire", "dev_append", "dev_publish",
     "ap_acquire", "ap_append", "ap_publish"}

\* the positions of the main thread inside main's finally block
FinallyPcs == {"finally_sniffer", "finally_pub"}

\* SIGINT/SIGTERM (handlers installed at main.py 36-37, before anything
\* else): Python runs the handler in the main thread, on top of whatever
\* frame it was executing, be it startup, sniff() and its callbacks, or the
\* finally block and the stop() it calls.  The handler never returns to
\* that frame (it ends in sys.exit), so a stop() it interrupts is
\* abandoned where it was and the handler's own stop() call starts afresh.
\* One signal is delivered per run.
signal ==
    /\ pcHandler = "none"
    /\ pcMain # "exited"
    /\ pcHandler' = "pub_stop"
    /\ pcStop' = "idle"
    /\ UNCHANGED <<storeVars, attached, loopVars, hopVars, snapHist,
                   lookupVars, pubVars, flushVars, sn_running, clock,
                   mainVars, stopIdx, sinkVars, busVars, frameHist, flushHist,
                   pushHist>>

\* sniff() raises: WiFiSniffer.start logs, calls self.stop() and returns
sniff_error ==
    /\ pcMain = "sniff" /\ HandlerOff
    /\ sn_running' = FALSE
    /\ pcMain' = "finally_sniffer"
    /\ flagsCleared' = flagsCleared \cup {"sniffer"}
    /\ UNCHANGED <<pcStats, statsReports>>
    /\ UNCHANGED <<storeVars, attached, hopVars, snapHist, lookupVars, clock,
                   pubVars, flushVars, cbKey, cbNew, frames, exit_code,
                   stopVars, sinkVars, busVars, frameHist, flushHist,
                   pushHist>>

\* finally: if sniffer: sniffer.stop()
finally_sniffer_stop ==
    /\ pcMain = "finally_sniffer" /\ pcHandler \in {"none", "done", "raised"}
    /\ sn_running' = FALSE
    /\ pcMain' = "finally_pub"
    /\ flagsCleared' = flagsCleared \cup {"sniffer"}
    /\ UNCHANGED <<pcStats, statsReports>>
    /\ UNCHANGED <<storeVars, attached, hopVars, snapHist, lookupVars, clock,
                   pubVars, flushVars, cbKey, cbNew, frames, exit_code,
                   stopVars, sinkVars, busVars, frameHist, flushHist,
                   pushHist>>

\* the main thread is at a call of publisher.stop()
InHandlerStop == pcHandler = "pub_stop"
InFinallyStop ==
    pcMain = "finally_pub" /\ pcHandler \in {"none", "done", "raised"}
StopCalled == InHandlerStop \/ InFinallyStop

\* control after "if publisher: publisher.stop()": the handler goes on to
\* sniffer.stop(); after the finally block the process exits
StopReturn ==
    IF InHandlerStop
    THEN pcHandler' = "sniffer_stop" /\ UNCHANGED <<pcMain, exit_code>>
    ELSE /\ pcMain' = "exited"
         /\ exit_code' = IF exit_code = "running" THEN "0" ELSE exit_code
         /\ UNCHANGED pcHandler

\* stop() 87: self.running = False (no call at all when publisher is None)
stop_begin ==
    /\ StopCalled /\ pcStop = "idle"
    /\ IF attached
       THEN /\ pub_running' = FALSE
            /\ pcStop' = "join"
            /\ UNCHANGED <<pcMain, exit_code, pcHandler>>
       ELSE StopReturn /\ UNCHANGED <<pub_running, pcStop>>
    /\ flagsCleared' = IF attached THEN flagsCleared \cup {"publisher"}
                       ELSE flagsCleared
    /\ UNCHANGED <<pcStats, statsReports>>
    /\ UNCHANGED <<storeVars, attached, hopVars, snapHist, lookupVars,
                   device_batch, ap_batch, lock, db_open, queue_open,
                   flushVars, sn_running, clock, cbKey, cbNew, frames,
                   stopIdx, sinkVars, busVars, frameHist, flushHist,
                   pushHist>>

\* stop() 88-89: join(timeout=5) returns because the flusher has exited
stop_join_returns ==
    /\ pcStop = "join"
    /\ pcFlush \in {"unstarted", "done", "dead"}
    /\ pcStop' = "acquire"
    /\ UNCHANGED <<storeVars, attached, loopVars, hopVars, snapHist,
                   lookupVars, pubVars, flushVars, sn_running, clock,
                   mainVars, pcHandler, stopIdx, sinkVars, busVars, frameHist,
                   flushHist, pushHist>>

\* stop() 88-89: join(timeout=5) gives up; the flusher (BATCH_INTERVAL is
\* 10 s) is still asleep, waiting for the lock or upserting
stop_join_timeout ==
    /\ pcStop = "join"
    /\ pcFlush \notin {"unstarted", "done", "dead"}
    /\ pcStop' = "acquire"
    /\ joinTimedOut' = joinTimedOut \cup {pcFlush}
    /\ UNCHANGED <<storeVars, attached, loopVars, hopVars, snapHist,
                   lookupVars, pubVars, flushVars, sn_running, clock,
                   mainVars, pcHandler, stopIdx, sinkVars, busVars, frameHist,
                   stopsDone, dirtySinceFlush, flushSawNew, stopSawNew,
                   pushHist>>

\* stop() 91: with self.lock (threading.Lock is not reentrant)
stop_acquire ==
    /\ pcStop = "acquire"
    /\ lock = "free"
    /\ lock' = "stop"
    /\ stopIdx' = 1
    /\ pcStop' = "flush"
    /\ stopSawNew' = dirtySinceFlush
    /\ dirtySinceFlush' = FALSE
    /\ UNCHANGED <<storeVars, attached, loopVars, hopVars, snapHist,
                   lookupVars, device_batch, ap_batch, pub_running, db_open,
                   queue_open, flushVars, sn_running, clock, mainVars,
                   pcHandler, sinkVars, busVars, frameHist, stopsDone,
                   joinTimedOut, flushSawNew, pushHist>>

\* the loop of stop() goes on to its next record
stop_next ==
    /\ stopIdx' = stopIdx + 1
    /\ UNCHANGED <<lock, pcStop, pcHandler, pcMain, exit_code, sn_running>>

\* an exception upsert_* lets through leaves the with block (releasing
\* the lock) and stop(), before the connections are closed.  Out of the
\* finally block it is uncaught: traceback, exit status 1.  Out of the
\* signal handler it is raised in the frame the signal interrupted: in the
\* try block of main before sniff(), main's "except Exception" calls
\* sys.exit(1); inside a callback, process_packet's "except Exception"
\* logs it and sniff() goes on; inside sniff() itself, scapy logs it and
\* goes on or lets it through to WiFiSniffer.start, which logs, stops the
\* sniffer and returns.
stop_raises ==
    /\ lock' = "free" /\ pcStop' = "idle" /\ UNCHANGED stopIdx
    /\ IF InHandlerStop
       THEN /\ pcHandler' = "raised"
            /\ IF pcMain = "startup"
               THEN /\ pcMain' = "finally_sniffer" /\ exit_code' = "1"
                    /\ UNCHANGED sn_running
               ELSE IF pcMain \in FinallyPcs
               THEN /\ pcMain' = "exited" /\ exit_code' = "1"
                    /\ UNCHANGED sn_running
               ELSE IF pcMain = "sniff"
               THEN \/ UNCHANGED <<pcMain, exit_code, sn_running>>
                    \/ /\ pcMain' = "finally_sniffer" /\ sn_running' = FALSE
                       /\ UNCHANGED exit_code
               ELSE /\ pcMain' = "sniff"
                    /\ UNCHANGED <<exit_code, sn_running>>
       ELSE /\ pcMain' = "exited" /\ exit_code' = "1"
            /\ UNCHANGED <<pcHandler, sn_running>>

\* stop() 92-93: for device in self.device_batch
stop_upsert_device ==
    /\ pcStop = "flush"
    /\ stopIdx <= Len(device_batch)
    /\ \E outcome \in UpsertOutcomes :
          /\ upsert_device(device_batch[stopIdx], outcome)
          /\ IF outcome = "connfail" THEN stop_raises ELSE stop_next
    /\ UNCHANGED <<storeVars, attached, loopVars, hopVars, snapHist,
                   lookupVars, device_batch, ap_batch, pub_running, db_open,
                   queue_open, flushVars, clock, cbKey, cbNew, frames,
                   busVars, frameHist, flushHist, pushHist>>

\* stop() 94-95: for ap in self.ap_batch
stop_upsert_access_point ==
    /\ pcStop = "flush"
    /\ stopIdx > Len(device_batch)
    /\ stopIdx <= Len(device_batch) + Len(ap_batch)
    /\ \E outcome \in UpsertOutcomes :
          /\ upsert_access_point(ap_batch[stopIdx - Len(device_batch)], outcome)
          /\ IF outcome = "connfail" THEN stop_raises ELSE stop_next
    /\ UNCHANGED <<storeVars, attached, loopVars, hopVars, snapHist,
                   lookupVars, device_batch, ap_batch, pub_running, db_open,
                   queue_open, flushVars, clock, cbKey, cbNew, frames,
                   busVars, frameHist, flushHist, pushHist>>

\* the with block ends; the batches are left as they are
stop_release ==
    /\ pcStop = "flush"
    /\ stopIdx > Len(device_batch) + Len(ap_batch)
    /\ lock' = "free"
    /\ pcStop' = "close"
    /\ UNCHANGED <<storeVars, attached, loopVars, hopVars, snapHist,
                   lookupVars, device_batch, ap_batch, pub_running, db_open,
                   queue_open, flushVars, sn_running, clock, mainVars,
                   pcHandler, stopIdx, sinkVars, busVars, frameHist,
                   flushHist, pushHist>>

\* stop() 97-99: self.db.close(), self.queue.close(), return
stop_close ==
    /\ pcStop = "close"
    /\ db_open' = FALSE
    /\ queue_open' = FALSE
    /\ stopsDone' = stopsDone + 1
    /\ pcStop' = "idle"
    /\ StopReturn
    /\ UNCHANGED <<storeVars, attached, loopVars, hopVars, snapHist,
                   lookupVars, device_batch, ap_batch, lock, pub_running,
                   flushVars, sn_running, clock, cbKey, cbNew, frames,
                   stopIdx, sinkVars, busVars, frameHist, joinTimedOut,
                   dirtySinceFlush, flushSawNew, stopSawNew, pushHist>>

\* signal_handler 29-30: if sniffer: sniffer.stop()
handler_sniffer_stop ==
    /\ pcHandler = "sniffer_stop"
    /\ sn_running' = FALSE
    /\ pcHandler' = "exit"
    /\ flagsCleared' = flagsCleared \cup {"sniffer"}
    /\ UNCHANGED <<pcStats, statsReports>>
    /\ UNCHANGED <<storeVars, attached, hopVars, snapHist, lookupVars, clock,
                   pubVars, flushVars, mainVars, pcStop, stopIdx, sinkVars,
                   busVars, frameHist, flushHist, pushHist>>

\* signal_handler 31: sys.exit(0).  SystemExit unwinds the interrupted
\* frame (a with block it was inside releases the lock; no except clause
\* on the way catches it): out of the try block main's finally block runs;
\* out of the finally block, whose remainder is skipped, the process exits
\* with the status of this SystemExit
handler_exit ==
    /\ pcHandler = "exit"
    /\ pcHandler' = "done"
    /\ lock' = IF lock \in {"callback", "stop"} THEN "free" ELSE lock
    /\ pcMain' = IF pcMain \in FinallyPcs THEN "exited" ELSE "finally_sniffer"
    /\ exit_code' = "0"
    /\ UNCHANGED <<storeVars, attached, loopVars, hopVars, snapHist,
                   lookupVars, device_batch, ap_batch, pub_running, db_open,
                   queue_open, flushVars, sn_running, clock, cbKey, cbNew,
                   frames, pcStop, stopIdx, sinkVars, busVars, frameHist,
                   flushHist, pushHist>>

(***************************************************************************)
(* Specifications.  Spec, SpecStore and SpecWindow hold the wall clock     *)
(* still (every datetime.now() returns the same instant); SpecClock lets   *)
(* it run.                                                                 *)
(***************************************************************************)
Probe(mac) == Frame("probe", mac, TRUE, -62, FALSE, <<>>)

\* the frames of the threaded specification: the probe request of a
\* station and the beacon of an access point
LiveFrames ==
    {Probe(MacA),
     Frame("beacon", MacB, TRUE, -70, TRUE, BeaconElts("home", 6, TRUE))}

Capture ==
    \/ on_device_lookup \/ on_device_acquire
    \/ on_device_append \/ on_device_publish
    \/ on_access_point_acquire \/ on_access_point_append
    \/ on_access_point_publish

Flusher ==
    \/ flush_check \/ flush_swap \/ flush_upsert_device
    \/ flush_upsert_access_point

Shutdown ==
    \/ signal \/ sniff_error \/ finally_sniffer_stop
    \/ stop_begin \/ stop_join_returns \/ stop_join_timeout
    \/ stop_acquire \/ stop_upsert_device \/ stop_upsert_access_point
    \/ stop_release \/ stop_close
    \/ handler_sniffer_stop \/ handler_exit

Next ==
    \/ start \/ start_monitor_failed
    \/ (/\ frames < MaxFrames
        /\ \E packet \in LiveFrames : process_packet(packet, clock, clock))
    \/ Capture \/ Flusher \/ Shutdown

Spec == Init /\ [][Next]_vars

\* the capture thread alone, on every frame of Frames: sniff() delivering
\* frames while the flusher sleeps and no signal arrives
NextStore ==
    \/ start
    \/ (/\ frames < MaxStoreFrames
        /\ \E packet \in Frames : process_packet(packet, clock, clock))
    \/ Capture

SpecStore == Init /\ [][NextStore]_vars

\* the capture thread alone, on the probe requests of one station with
\* either signal level and the beacon of one access point
WindowFrames ==
    {Frame("probe", MacA, TRUE, r, FALSE, <<>>) : r \in RSSI}
    \cup {Frame("beacon", MacA, TRUE, -62, FALSE, BeaconElts("home", 1, FALSE)),
           Frame("probe", BROADCAST, TRUE, -62, FALSE, <<>>)}

NextWindow ==
    \/ start
    \/ (/\ frames < MaxWindowFrames
        /\ \E packet \in WindowFrames : process_packet(packet, clock, clock))
    \/ Capture

SpecWindow == Init /\ [][NextWindow]_vars

Hopper == hopper_while \/ hopper_for \/ hopper_set_channel

\* the sniffer's life: startup, the channel hopper next to the capture
\* thread, and shutdown, while the flusher sleeps
NextSniffer ==
    \/ start \/ start_monitor_failed
    \/ (/\ frames < MaxLoopFrames
        /\ \E packet \in LiveFrames : process_packet(packet, clock, clock))
    \/ Capture \/ Hopper \/ Shutdown

SpecSniffer == Init /\ [][NextSniffer]_vars

\* every thread of the process: capture, flusher, channel hopper, stats
\* reporter, and shutdown
NextLoops ==
    \/ start \/ start_monitor_failed
    \/ (/\ frames < MaxLoopFrames
        /\ \E packet \in LiveFrames : process_packet(packet, clock, clock))
    \/ Capture \/ Flusher \/ Hopper \/ stats_report \/ Shutdown

SpecLoops == Init /\ [][NextLoops]_vars

\* the capture thread alone with the clock running: each datetime.now()
\* returns the instant of the previous read or a later one
ClockFrames ==
    {Probe(MacA),
     Frame("beacon", MacB, TRUE, -70, FALSE, BeaconElts("", 1, FALSE)),
     Frame("probe", BROADCAST, TRUE, -62, FALSE, <<>>)}

NextClock ==
    \/ start
    \/ (/\ frames < MaxClockFrames
        /\ \E packet \in ClockFrames, t1 \in clock..MaxClock :
              \E t2 \in t1..MaxClock : process_packet(packet, t1, t2))
    \/ Capture

SpecClock == Init /\ [][NextClock]_vars

\* the capture thread alone, on the beacons of one access point, within
\* one BATCH_INTERVAL sleep of the flusher: every beacon is one append to
\* ap_batch
BatchFrames ==
    {Frame("beacon", MacB, TRUE, -70, TRUE, BeaconElts("home", 6, TRUE))}

NextBatch ==
    \/ start
    \/ (/\ frames < MaxBatchFrames
        /\ \E packet \in BatchFrames : process_packet(packet, clock, clock))
    \/ on_access_point_acquire \/ on_access_point_append
    \/ on_access_point_publish

SpecBatch == Init /\ [][NextBatch]_vars

\* the capture thread alone, on the beacons of one access point with the
\* Privacy bit clear or set and every list of security elements
SecurityIEs == {RsnIE, RsnSaeIE, WpaIE, OtherVendorIE}

SecurityEltLists == UNION {[1..n -> SecurityIEs] : n \in 0..MaxSecurityElts}

EncryptionFrames ==
    {Frame("beacon", MacB, TRUE, -70, p, BeaconElts("home", 6, FALSE) \o l) :
        p \in BOOLEAN, l \in SecurityEltLists}

NextEncryption ==
    \/ start
    \/ (/\ frames < MaxEncryptionFrames
        /\ \E packet \in EncryptionFrames :
              process_packet(packet, clock, clock))
    \/ on_access_point_acquire \/ on_access_point_append
    \/ on_access_point_publish

SpecEncryption == Init /\ [][NextEncryption]_vars

(***************************************************************************)
(* Properties.                                                             *)
(***************************************************************************)
\* stop() has run to its return, and the flusher thread is gone: it left
\* its loop, or it was a daemon thread of a process that has exited
PublisherStopped == stopsDone >= 1 /\ pcStop = "idle"
FlusherExited == pcFlush \in {"done", "dead"} \/ pcMain = "exited"

\* C1: once the publisher has stopped and the flusher thread has exited,
\* every record pushed to device_batch / ap_batch has been upserted to the
\* document sink exactly once (the sink rejecting none), in every
\* interleaving of stop() with the flusher in which join() returned or
\* timed out on a flusher still asleep in its BATCH_INTERVAL wait.
ShutdownFlushExactlyOnce ==
    (/\ PublisherStopped /\ FlusherExited
     /\ ~sinkFailed /\ joinTimedOut \subseteq {"sleep"})
        => \A a \in Addrs : /\ devUpserts[a] = devPushed[a]
                            /\ apUpserts[a] = apPushed[a]

\* C2: no reachable state is a deadlock on the Publisher mutex: stop()
\* never waits for the mutex while the frame that holds it is the callback
\* the signal handler interrupted, which cannot run until stop() returns.
NoMutexDeadlock == ~(pcStop = "acquire" /\ lock = "callback")

\* C3: double-stop is a no-op: a step of a stop() call made after an
\* earlier stop() call has returned issues no upsert and changes no
\* Publisher state.
DoubleStopNoOp ==
    [][(stopsDone >= 1 /\ <<pcStop, stopIdx>>' # <<pcStop, stopIdx>>)
          => UNCHANGED <<devUpserts, apUpserts, sinkFailed, device_batch,
                         ap_batch, pub_running, db_open, queue_open>>]_vars

DeviceMsg(m) == [event_type |-> "device_discovered", key |-> m]
Occurrences(seq, x) == Cardinality({i \in 1..Len(seq) : seq[i] = x})
DeviceEvents(m) == Occurrences(bus, DeviceMsg(m))
DeviceDropped(m) == Occurrences(busDropped, DeviceMsg(m))
DeviceEventCount ==
    Cardinality({i \in 1..Len(bus) : bus[i].event_type = "device_discovered"})
NoCallbackRunning == pcMain \notin (CapturePcs \ {"sniff"})

CountersCountEveryIngest ==
    /\ \A m \in DOMAIN devices : devices[m].packet_count = probesIn[m]
    /\ \A b \in DOMAIN access_points :
          access_points[b].beacon_count = beaconsIn[b]

\* the size N of the RSSI sliding window
RssiWindow == 10

\* the last n elements of seq (all of it when it is shorter)
LastN(seq, n) ==
    IF Len(seq) <= n THEN seq ELSE SubSeq(seq, Len(seq) - n + 1, Len(seq))

\* C7: every record of the Store holds at most N = 10 rssi_values, the
\* most recent ones, oldest first.
RssiWindowBounded ==
    /\ \A m \in DOMAIN devices :
          /\ Len(devices[m].rssi_values) <= RssiWindow
          /\ devices[m].rssi_values = LastN(devRssiIn[m], RssiWindow)
    /\ \A b \in DOMAIN access_points :
          /\ Len(access_points[b].rssi_values) <= RssiWindow
          /\ access_points[b].rssi_values = LastN(apRssiIn[b], RssiWindow)

\* C8: a beacon with a non-empty SSID, ingested for a BSSID whose stored
\* ssid is empty, upgrades the stored ssid to the new SSID.
HiddenSsidUpgraded ==
    [][\A b \in DOMAIN access_points :
          (/\ beaconsIn'[b] = beaconsIn[b] + 1
           /\ access_points[b].ssid = ""
           /\ lastObs'[b].ssid \notin {None, ""})
              => access_points'[b].ssid = lastObs'[b].ssid]_vars

\* C9: after a beacon is ingested for an already-known BSSID, the stored
\* channel and encryption are those of that latest beacon.
ChannelEncryptionReasserted ==
    \A b \in DOMAIN access_points :
        beaconsIn[b] >= 2
            => /\ access_points[b].channel = lastObs[b].channel
               /\ access_points[b].encryption = lastObs[b].encryption

\* the all-ones broadcast address, or bit 0 of the first octet set
IsBroadcastOrMulticast(mac) ==
    mac # NoAddr /\ (mac = BROADCAST \/ mac[1] % 2 = 1)

\* C10: broadcast and multicast MACs never create records, and no
\* callback is invoked for them.
NoBroadcastMulticastRecords ==
    \A a \in Addrs :
        IsBroadcastOrMulticast(a)
            => /\ a \notin DOMAIN devices
               /\ a \notin DOMAIN access_points
               /\ devPushed[a] = 0 /\ apPushed[a] = 0
               /\ ~(pcMain \in (CapturePcs \ {"sniff"}) /\ cbKey = a)

\* the keys the handlers have accepted so far
AcceptedMacs == {a \in Addrs : probesIn[a] > 0}
AcceptedBssids == {a \in Addrs : beaconsIn[a] > 0}

\* C11: the record stored under key K has identity K, the records number
\* the distinct keys accepted so far (re-ingest never duplicates), and no
\* step removes a record or changes the identity of one.
RecordIdentityStable ==
    /\ [](/\ \A k \in DOMAIN devices : devices[k].mac_address = k
          /\ \A k \in DOMAIN access_points : access_points[k].bssid = k
          /\ DOMAIN devices = AcceptedMacs
          /\ DOMAIN access_points = AcceptedBssids
          /\ Cardinality(DOMAIN devices) = Cardinality(AcceptedMacs)
          /\ Cardinality(DOMAIN access_points) = Cardinality(AcceptedBssids))
    /\ [][/\ DOMAIN devices \subseteq DOMAIN devices'
          /\ DOMAIN access_points \subseteq DOMAIN access_points'
          /\ \A k \in DOMAIN devices :
                devices'[k].mac_address = devices[k].mac_address
          /\ \A k \in DOMAIN access_points :
                access_points'[k].bssid = access_points[k].bssid]_vars

\* C11 witness: a station ingested twice next to an access point
RecordIdentityWitness ==
    /\ probesIn[MacA] = 2 /\ beaconsIn[MacB] = 1
    /\ Cardinality(DOMAIN devices) = 1
    /\ Cardinality(DOMAIN access_points) = 1

\* C12: every record has first_seen <= last_seen, no step changes the
\* first_seen of a record, and no step lowers its last_seen (the clock read
\* by each datetime.now() never running backwards).
TimestampsOrdered ==
    /\ [](/\ \A k \in DOMAIN devices :
                devices[k].first_seen <= devices[k].last_seen
          /\ \A k \in DOMAIN access_points :
                access_points[k].first_seen <= access_points[k].last_seen)
    /\ [][/\ \A k \in DOMAIN devices :
                /\ devices'[k].first_seen = devices[k].first_seen
                /\ devices'[k].last_seen >= devices[k].last_seen
          /\ \A k \in DOMAIN access_points :
                /\ access_points'[k].first_seen = access_points[k].first_seen
                /\ access_points'[k].last_seen >= access_points[k].last_seen]_vars

\* C12 witness: a station created while the clock ticked between its two
\* reads and re-ingested later, next to an access point seen twice
TimestampsWitness ==
    /\ MacA \in DOMAIN devices /\ MacB \in DOMAIN access_points
    /\ probesIn[MacA] = 2
    /\ devices[MacA].first_seen = 1 /\ devices[MacA].last_seen = 3
    /\ access_points[MacB].first_seen < access_points[MacB].last_seen

\* C13: once a Device's vendor holds a non-empty string, no step (ingest,
\* callback, flush or shutdown) changes it: vendor goes from unset to set
\* at most once.
VendorSetOnce ==
    [][\A m \in DOMAIN devices :
          devices[m].vendor \notin {None, ""}
              => devices'[m].vendor = devices[m].vendor]_vars

\* C13 witness: a station with a vendor, ingested and queued twice and
\* upserted
VendorSetOnceWitness ==
    /\ MacA \in DOMAIN devices
    /\ devices[MacA].vendor = "Acme"
    /\ devPushed[MacA] = 2 /\ devUpserts[MacA] >= 1
    /\ pcMain = "sniff"

\* C14: VendorLookup.lookup is called at most once per MAC, and only by
\* the on_device callback of the ingest that created the record
\* (is_new = True), never by one of an update.
LookupOncePerNewDevice ==
    /\ [](\A m \in Addrs : lookups[m] <= 1)
    /\ [][\A m \in Addrs :
             lookups'[m] # lookups[m]
                 => /\ pcMain = "dev_lookup" /\ cbKey = m /\ cbNew
                    /\ probesIn[m] = 1]_vars

\* C14 witness: a station whose lookup found no vendor, ingested again
\* with both callbacks returned
LookupOnceWitness ==
    /\ MacA \in DOMAIN devices
    /\ lookups[MacA] = 1 /\ devices[MacA].vendor = None
    /\ devPushed[MacA] = 2
    /\ pcMain = "sniff"

\* C15: vendor resolution never runs on the capture path: no call of
\* VendorLookup.lookup is made by the thread that runs process_packet.
LookupOffCapturePath == "capture" \notin lookupThreads

\* C16: the records queued in device_batch / ap_batch are value copies:
\* every entry still shows the rssi_values, counter and last_seen the
\* record had when its callback queued it, whatever was ingested since.
SnapshotsAreCopies ==
    /\ \A i \in 1..Len(device_batch) :
          Shown(devices[device_batch[i]]) = devQueued[i]
    /\ \A i \in 1..Len(ap_batch) :
          Shown(access_points[ap_batch[i]]) = apQueued[i]

\* C17: when enabling monitor mode has failed at startup, the capture loop
\* is never entered (no frame is processed), the channel hopper is never
\* started, no _set_channel call is made, and the process exits with
\* code 1.
MonitorFailureFatal ==
    monitor_mode = "failed"
        => /\ frames = 0 /\ pcMain \notin CapturePcs /\ ~sn_running
           /\ pcHop = "unstarted" /\ setChannelCalls = 0
           /\ (pcMain = "exited" => exit_code = "1")

\* C18: a frame whose decoding raises does not end the capture loop: the
\* step that handles it leaves both Store maps as they were, enters no
\* callback and queues nothing, and leaves the capture thread in sniff()
\* with the sniffer running, ready for the next frame.
DecodeErrorSwallowed ==
    [][decodeErrorAt' # decodeErrorAt
          => /\ UNCHANGED <<devices, access_points, device_batch, ap_batch,
                            devPushed, apPushed, bus, busDropped>>
             /\ pcMain' = "sniff"
             /\ sn_running' = sn_running
             /\ exit_code' = exit_code]_vars

\* C18 witness: the first frame raised in decoding, and the two frames
\* that followed it were ingested
DecodeErrorWitness ==
    /\ decodeErrorAt = {1} /\ frames = 3
    /\ probesIn[MacA] = 1 /\ beaconsIn[MacB] = 1
    /\ pcMain = "sniff"

\* C19: a sink error on one record does not stall the pipeline: an upsert
\* that fails during a flush never ends the flusher thread, and whenever
\* the flusher is between two cycles every record it took out of the
\* batches has had its upsert issued.
SinkErrorDoesNotStall ==
    /\ pcFlush # "dead"
    /\ pcFlush \in {"check", "sleep", "done"}
          => devices_to_flush = <<>> /\ aps_to_flush = <<>>

BATCH_SIZE == 50

\* C20: the two publisher batches are bounded: in every reachable state
\* len(device_batch) and len(ap_batch) are at most the safety cap
\* 10 * BATCH_SIZE.
BatchesBounded ==
    /\ Len(device_batch) <= 10 * BATCH_SIZE
    /\ Len(ap_batch) <= 10 * BATCH_SIZE

\* the records of seq are all still in batch
AllPendingIn(seq, batch) ==
    \A i \in 1..Len(seq) : \E j \in 1..Len(batch) : batch[j] = seq[i]

\* C21: records batched while the sink is disconnected are not lost by a
\* flush cycle: a record the flusher took out of the batches and is not
\* going to upsert any more (it has left its upsert loops without issuing
\* the record's upsert) is pending in its batch again.
SinkDownRecordsStayPending ==
    pcFlush # "upsert"
        => /\ AllPendingIn(devices_to_flush, device_batch)
           /\ AllPendingIn(aps_to_flush, ap_batch)

\* the classification the decision order gives
Classified(privacy, elts) ==
    IF ~privacy THEN "Open"
    ELSE IF \E i \in 1..Len(elts) : elts[i].ID = 48
    THEN IF \E i \in 1..Len(elts) : elts[i] = RsnSaeIE
         THEN "WPA3" ELSE "WPA2"
    ELSE IF \E i \in 1..Len(elts) : elts[i] = WpaIE THEN "WPA"
    ELSE "WEP"

\* C22: the encryption _get_encryption returns for a beacon follows the
\* decision order whatever the order of the elements: Privacy bit clear
\* gives Open; otherwise an RSN element anywhere gives WPA2 (WPA3 when
\* its AKM list contains SAE); otherwise a WPA vendor element gives WPA;
\* otherwise WEP.
EncryptionDecisionOrder ==
    \A b \in DOMAIN lastObs :
        lastObs[b].encryption = Classified(lastObs[b].privacy, lastObs[b].elts)

\* C23: the Publisher mutex is held only for a push to a batch and for
\* the swap on flush: the capture thread holds it only at its append, and
\* no thread issues a document-sink upsert while it holds the mutex, the
\* final flush of stop() included.
MutexOnlyForPushAndSwap ==
    /\ lock = "callback" => pcMain \in {"dev_append", "ap_append"}
    /\ ~(/\ lock = "stop" /\ pcStop = "flush"
         /\ stopIdx <= Len(device_batch) + Len(ap_batch))

\* the Publisher's stop() is under way only once capture has been stopped
FlushAfterCaptureStopped == pcStop # "idle" => ~sn_running

\* once a stop() has returned no callback appends to a batch
NoAppendAfterFinalFlush ==
    [][stopsDone >= 1 => /\ Len(device_batch') <= Len(device_batch)
                         /\ Len(ap_batch') <= Len(ap_batch)]_vars

\* at Stopped every key that reached a batch has been upserted
NothingLeftAtStopped ==
    (pcMain = "exited" /\ stopsDone >= 1 /\ ~sinkFailed)
        => \A a \in Addrs : /\ devPushed[a] > 0 => devUpserts[a] > 0
                            /\ apPushed[a] > 0 => apUpserts[a] > 0

\* C24: teardown is the reverse of startup on every shutdown path:
\* capture is stopped before the Publisher performs its final flush, so no
\* callback appends to a batch after the final flush and, at Stopped, no
\* record that reached a batch remains un-upserted.
TeardownReverseOfStartup ==
    /\ []FlushAfterCaptureStopped
    /\ NoAppendAfterFinalFlush
    /\ []NothingLeftAtStopped

\* once WiFiSniffer.stop() has cleared running, sniff() delivers no frame
CaptureStopsOnFlag ==
    [][frames' # frames => "sniffer" \notin flagsCleared]_vars

\* once WiFiSniffer.stop() has cleared running, the hopper makes at most
\* the _set_channel call it had already decided on
HopperStopsOnFlag ==
    [][(pcHop # "set" /\ pcHop' = "set") => "sniffer" \notin flagsCleared]_vars

\* once Publisher.stop() has cleared running, the flusher begins no swap
FlusherStopsOnFlag ==
    [][(pcFlush = "sleep" /\ pcFlush' \in {"check", "upsert"})
          => "publisher" \notin flagsCleared]_vars

\* once a running flag has been cleared, the stats reporter logs no report
StatsStopsOnFlag ==
    [][statsReports' # statsReports => flagsCleared = {}]_vars

\* C25: after shutdown is signalled by clearing the running flag, every
\* long-running loop observes it at its next iteration boundary and
\* terminates: no frame is delivered to process_packet, the channel hopper
\* issues at most one more set_channel, the flusher performs no flush
\* cycle that starts after the flag was cleared, and the stats reporter
\* stops.
LoopsObserveRunningFlag ==
    /\ CaptureStopsOnFlag
    /\ HopperStopsOnFlag
    /\ FlusherStopsOnFlag
    /\ StatsStopsOnFlag

\* C26: a failed or timed-out _set_channel is non-fatal and leaves the
\* controller state unchanged: the hopper goes on to the next channel of
\* the plan, current_channel keeps the value of the last successful
\* retune (a successful call sets it to the channel asked for), and
\* current_channel is always 1 or a channel of the plan.
ChannelErrorNonFatal ==
    /\ [](current_channel \in
             {1} \cup {CHANNELS_2_4GHZ[i] : i \in 1..Len(CHANNELS_2_4GHZ)})
    /\ [][setChannelCalls' # setChannelCalls
            => /\ pcHop' = "for" /\ hopIdx' = hopIdx + 1
               /\ current_channel' = IF channelErrors' # channelErrors
                                      THEN current_channel
                                      ELSE CHANNELS_2_4GHZ[hopIdx]]_vars

\* two retunes succeeded, the third call failed, and the hopper is at the
\* fourth channel of the plan with current_channel still the second
ChannelErrorWitness ==
    /\ setChannelCalls = 3 /\ channelErrors = 1
    /\ current_channel = 2 /\ hopIdx = 4 /\ pcHop = "for"

\* every record pushed has had its upsert applied: both batches and the
\* lists of the flusher are empty, no callback, flush or stop() is under
\* way
BatchesDrained ==
    /\ attached /\ NoCallbackRunning /\ HandlerOff
    /\ device_batch = <<>> /\ ap_batch = <<>>
    /\ devices_to_flush = <<>> /\ aps_to_flush = <<>>
    /\ pcFlush # "upsert" /\ pcStop = "idle"

\* C27: when no sink error occurs, the counters accumulated in the sink
\* agree with the Store: after the batches have been drained, the sink's
\* packet_count for a MAC equals the Store's packet_count for it, and
\* likewise beacon_count for each BSSID.
SinkCountersAgreeWithStore ==
    (BatchesDrained /\ ~sinkFailed)
        => /\ \A m \in DOMAIN devices :
                 devCounted[m] = devices[m].packet_count
           /\ \A b \in DOMAIN access_points :
                 apCounted[b] = access_points[b].beacon_count

====
